---------------------------- MODULE Spec2Model ----------------------------
(***************************************************************************)
(* Expense tracker: the promise-based IndexedDB wrapper (IDBWrapper), the  *)
(* ExpenseTracker component that calls it, and the derived views (month    *)
(* filter, per-category totals).                                           *)
(*                                                                         *)
(* Three specifications share the variables:                               *)
(*   Spec      the wrapper driven by an arbitrary caller                   *)
(*   SpecApp   the wrapper driven by the ExpenseTracker component          *)
(*   SpecView  the pure view functions applied to drawn inputs             *)
(* In all three the storage engine is healthy: a request that is well      *)
(* formed succeeds and every transaction commits.                          *)
(*   SpecFault the component over an engine that may fail: an open or a    *)
(*             request may end in an error event, a read-write transaction *)
(*             may abort when it commits, and the database may have been   *)
(*             created before without the wrapper's object store           *)
(*   SpecLive  the wrapper over the failing engine, with the engine's      *)
(*             events fair, on a host that may lack indexedDB and beside   *)
(*             another context that may ask for the database's deletion    *)
(***************************************************************************)
EXTENDS Integers, Sequences, FiniteSets, TLC

VARIABLES
    \* the browser's database, as IDBWrapper uses it
    dbVersion,      \* version of the database named dbName; 0: it does not exist
    hasStore,       \* db.objectStoreNames.contains(storeName)
    store,          \* committed content of the object store: a set of stored values
    keyGen,         \* current number of the store's key generator
    generated,      \* history: the keys the key generator has handed out, in order
    ops,            \* the wrapper calls made so far, in call order
    \* the ExpenseTracker component
    variant,        \* which source file the component is: "app" (app.jsx), "App"
                    \* (App.jsx), "idb" (the component in idb.js, on the global store)
    utcOffset,      \* the host's offset from UTC, in hours
    idbAvailable,   \* the host defines the global indexedDB
    mounted,        \* the mount effects have run
    formData,       \* useState: the form's fields
    monthYear,      \* useState: the selected month, "YYYY-MM" or ""
    expenses,       \* useState: the in-memory record list
    message,        \* useState: the message shown
    timers,         \* pending setTimeout callbacks of showMessage
    filteredExpenses, \* the list the component renders
    chartData,      \* the data handed to the pie chart: <<[key, total], ...>>
    pieChart,       \* useState pieChart, and the Chart instances on the canvas
    lastEvent       \* history: the handler that ran last, and what it saw

dbVars == <<dbVersion, hasStore, store, keyGen, generated>>
hostVars == <<variant, utcOffset, idbAvailable>>
uiVars == <<mounted, formData, monthYear, expenses, message, timers,
            filteredExpenses, chartData, pieChart>>
vars == <<dbVars, ops, hostVars, uiVars, lastEvent>>

----------------------------------------------------------------------------
(* Bounds *)

MaxOps == 4         \* wrapper calls per behaviour
MaxPending == 2     \* calls that may be unsettled or uncommitted at once
MaxKey == 2         \* explicit keys a caller passes lie in 1..MaxKey

----------------------------------------------------------------------------
(* Values *)

\* The id of a record that carries none (JS undefined): not a valid key.
NoId == 0

\* The keys of CATEGORIES.
Categories == {"food", "transportation", "utilities", "entertainment", "other"}

\* What a caller passes to save, before an id is chosen.
SampleData ==
    { [id |-> NoId, amount |-> 1, category |-> "food", description |-> "lunch",
       date |-> "2024-03-01"],
      [id |-> NoId, amount |-> 2, category |-> "other", description |-> "bus",
       date |-> "2024-04-01"] }

NoData == [id |-> NoId, amount |-> 0, category |-> "", description |-> "", date |-> ""]

\* The fields of a record other than its id.
Fields(r) == [r EXCEPT !.id = NoId]

Ids(S) == { r.id : r \in S }


\* SortById with a slip: the record with the lowest key is left out (a key
\* range whose lower bound is open).
SortByIdAboveFirst(S) ==
    LET T == { r \in S : \E q \in S : q.id < r.id }
    IN  CHOOSE list \in [1..Cardinality(T) -> T] :
            \A m, n \in 1..Cardinality(T) : m < n => list[m].id < list[n].id

RECURSIVE SortById(_)
\* IDBObjectStore.getAll() yields the stored values in ascending key order.
SortById(S) ==
    IF S = {} THEN <<>>
    ELSE LET first == CHOOSE r \in S : \A q \in S : r.id <= q.id
         IN  <<first>> \o SortById(S \ {first})

Range(s) == { s[i] : i \in 1..Len(s) }

----------------------------------------------------------------------------
(* The object store created by open(): keyPath "id", autoIncrement *)

\* A valid key: the model's keys are positive numbers; undefined is none.
ValidKey(k) == k # NoId

\* The key put() stores a value under: the value's own id (in-line key) or,
\* when it has none, the key generator's current number.
PutKey(data, kg) == IF data.id = NoId THEN kg ELSE data.id

\* PutKeyGen with a slip: an explicit key does not move the key generator.
PutKeyGenNoBump(data, kg) == IF data.id = NoId THEN kg + 1 ELSE kg

\* The key generator after put(): advanced past a generated key, and past an
\* explicit key that is not below it.
PutKeyGen(data, kg) ==
    IF data.id = NoId THEN kg + 1
    ELSE IF data.id >= kg THEN data.id + 1 ELSE kg

\* PutRecord with a slip: the value is added and the record stored under its
\* key stays (add() without the key check, instead of put()).
PutRecordAdd(S, data, kg) == S \cup { [data EXCEPT !.id = PutKey(data, kg)] }

\* put(): the value, with its key injected at keyPath, replaces the record
\* stored under that key, if there is one.
PutRecord(S, data, kg) ==
    LET k == PutKey(data, kg)
    IN  { r \in S : r.id # k } \cup { [data EXCEPT !.id = k] }

\* DeleteRecord with a slip: a key range up to the key instead of the key.
DeleteRecordUpTo(S, k) == { r \in S : r.id > k }

\* delete(key): removes the record stored under key; none is no error.
DeleteRecord(S, k) == { r \in S : r.id # k }

\* clear(): removes every record; the key generator keeps its number.
ClearRecords(S) == {}

----------------------------------------------------------------------------
(* Wrapper calls *)

Mode(kind) == IF kind = "getAll" THEN "readonly" ELSE "readwrite"

Settled(op) == op.outcome # "pending"

\* The calls whose promise or whose transaction is still under way.
Unfinished == { i \in 1..Len(ops) : ops[i].pc \notin {"finished", "aborted"} }

\* A call: the async method runs up to its `await this.open()`.
NewOp(kind, data, key, caller) ==
    [kind |-> kind, data |-> data, key |-> key, pc |-> "open",
     outcome |-> "pending", error |-> "", resId |-> NoId, resList |-> <<>>,
     pre |-> {}, post |-> {}, kgPre |-> 0, kgPost |-> 0,
     seen |-> { j \in 1..Len(ops) : Settled(ops[j]) },
     caller |-> caller]

CanCall == Len(ops) < MaxOps /\ Cardinality(Unfinished) < MaxPending

\* ThrownError with a slip: delete() of a key that is not stored throws.
ThrownErrorMissing(op, storeExists) ==
    IF ~storeExists THEN "NotFoundError"
    ELSE IF op.kind = "delete" /\ ~ValidKey(op.key) THEN "DataError"
    ELSE IF op.kind = "delete" /\ op.key \notin Ids(store) THEN "NotFoundError"
    ELSE ""

\* The method bodies after `await this.open()` throw inside the promise
\* executor, which rejects the promise: transaction() when the store is
\* missing, delete() when its argument is no valid key.
ThrownError(op, storeExists) ==
    IF ~storeExists THEN "NotFoundError"
    ELSE IF op.kind = "delete" /\ ~ValidKey(op.key) THEN "DataError"
    ELSE ""

\* CanStart with a slip: a read-only transaction does not wait for the
\* read-write transactions created before it.
CanStartUnordered(i) ==
    \/ Mode(ops[i].kind) = "readonly"
    \/ \A j \in 1..(i - 1) : ops[j].pc \notin {"tx", "done"}

\* CanStart with a slip: transactions on the store run without waiting for
\* one another.
CanStartOverlapping(i) == ops[i].pc = "tx"

\* The transaction of call i may start: transactions with overlapping scope
\* run in the order they were created unless both only read.
CanStart(i) ==
    \A j \in 1..(i - 1) :
        ops[j].pc \in {"tx", "done"} =>
            Mode(ops[j].kind) = "readonly" /\ Mode(ops[i].kind) = "readonly"


----------------------------------------------------------------------------
(* JS numbers and dates, as the component uses them *)

\* Significand bits the model's numbers keep (a JS Number keeps 53); amounts
\* are counted in the smallest unit the model distinguishes.
MantissaBits == 3

RECURSIVE Pow2(_)
Pow2(n) == IF n = 0 THEN 1 ELSE 2 * Pow2(n - 1)

RECURSIVE Quantum(_, _)
\* The spacing of representable numbers around x >= 0.
Quantum(x, q) == IF x < q * Pow2(MantissaBits) THEN q ELSE Quantum(x, 2 * q)

\* Round to nearest representable number, ties to the even significand.
FRound(x) ==
    LET q == Quantum(x, 1)
        lower == (x \div q) * q
        rem == x - lower
    IN  IF 2 * rem < q THEN lower
        ELSE IF 2 * rem > q THEN lower + q
        ELSE IF (x \div q) % 2 = 0 THEN lower ELSE lower + q

\* The JS + of two numbers.
FAdd(x, y) == FRound(x + y)

NaN == -1

BaseYear == 2022

IsLeap(y) == (y % 4 = 0 /\ y % 100 # 0) \/ y % 400 = 0

DaysInMonth(y, m) ==
    IF m = 2 THEN (IF IsLeap(y) THEN 29 ELSE 28)
    ELSE IF m \in {4, 6, 9, 11} THEN 30 ELSE 31

RECURSIVE DaysBeforeYear(_)
DaysBeforeYear(y) ==
    IF y <= BaseYear THEN 0
    ELSE DaysBeforeYear(y - 1) + (IF IsLeap(y - 1) THEN 366 ELSE 365)

RECURSIVE DaysBeforeMonth(_, _)
DaysBeforeMonth(y, m) ==
    IF m <= 1 THEN 0 ELSE DaysBeforeMonth(y, m - 1) + DaysInMonth(y, m - 1)

\* Days from BaseYear-01-01 to y-m-d.
DayNumber(y, m, d) == DaysBeforeYear(y) + DaysBeforeMonth(y, m) + (d - 1)

\* The year and month (1..12) of the day with that number, for the days of
\* BaseYear and the two years after it.
CivilFromDay ==
    [n \in 0..(DaysBeforeYear(BaseYear + 3) - 1) |->
        CHOOSE ym \in (BaseYear..(BaseYear + 2)) \X (1..12) :
            /\ DayNumber(ym[1], ym[2], 1) <= n
            /\ n < DayNumber(ym[1], ym[2], 1) + DaysInMonth(ym[1], ym[2])]

\* The date strings of the model, read as the Date constructor reads them.
DateStrings == {"2024-03-01", "2024-03-31", "2024-04-01"}

DateParts(s) ==
    CASE s = "2024-03-01" -> <<2024, 3, 1>>
      [] s = "2024-03-31" -> <<2024, 3, 31>>
      [] s = "2024-04-01" -> <<2024, 4, 1>>
      [] OTHER -> <<>>

\* new Date(s) with a slip: a string that cannot be parsed is read as the
\* first day of March 2024 instead of as an Invalid Date.
NewDateLenient(s) ==
    LET p == IF DateParts(s) = <<>> THEN <<2024, 3, 1>> ELSE DateParts(s)
    IN  24 * DayNumber(p[1], p[2], p[3])

\* new Date(s): a date-only ISO string is midnight UTC of that day; the time
\* value here is in hours from BaseYear-01-01T00:00Z. Anything else the model
\* holds ("" included) is an Invalid Date.
NewDate(s) ==
    LET p == DateParts(s)
    IN  IF p = <<>> THEN NaN ELSE 24 * DayNumber(p[1], p[2], p[3])

\* Date.prototype.getFullYear / getMonth: components of the host's local time.
GetFullYear(t, off) == IF t = NaN THEN NaN ELSE CivilFromDay[(t + off) \div 24][1]
GetMonth(t, off) == IF t = NaN THEN NaN ELSE CivilFromDay[(t + off) \div 24][2] - 1

MonthStrings == {"2024-03", "2024-04"}

\* monthYear.split('-').map(Number)
MonthParts(s) ==
    CASE s = "2024-03" -> <<2024, 3>>
      [] s = "2024-04" -> <<2024, 4>>

----------------------------------------------------------------------------
(* The derived views *)

\* filteredExpenses: nothing when no month is selected, else the records
\* whose local year and month are the selected ones.
FilterPredicate(expense, my, off) ==
    LET expenseDate == NewDate(expense.date)
        year == MonthParts(my)[1]
        month == MonthParts(my)[2]
    IN  /\ GetFullYear(expenseDate, off) = year
        /\ GetMonth(expenseDate, off) = month - 1

FilteredExpenses(exps, my, off) ==
    IF my = "" THEN <<>>
    ELSE SelectSeq(exps, LAMBDA e : FilterPredicate(e, my, off))

\* acc[key], or 0 when acc has no such property (or holds a falsy total).
AccGet(acc, key) ==
    IF \E i \in 1..Len(acc) : acc[i].key = key
    THEN (LET i == CHOOSE i \in 1..Len(acc) : acc[i].key = key IN acc[i].total)
    ELSE 0

\* acc[key] = total: an existing property keeps its place, a new one goes last.
AccSet(acc, key, total) ==
    IF \E i \in 1..Len(acc) : acc[i].key = key
    THEN [i \in 1..Len(acc) |->
            IF acc[i].key = key THEN [key |-> key, total |-> total] ELSE acc[i]]
    ELSE Append(acc, [key |-> key, total |-> total])

\* ReduceStep with a slip: the amount replaces the total instead of adding to it.
ReduceStepOverwrite(acc, expense) ==
    AccSet(acc, expense.category, expense.amount)

\* One step of the reduce: acc[c] = (acc[c] || 0) + amount.
ReduceStep(acc, expense) ==
    AccSet(acc, expense.category, FAdd(AccGet(acc, expense.category), expense.amount))

RECURSIVE ReduceFrom(_, _, _)
ReduceFrom(acc, list, i) ==
    IF i > Len(list) THEN acc ELSE ReduceFrom(ReduceStep(acc, list[i]), list, i + 1)

\* CategoryTotals with a slip: the reduce starts from an object that has the
\* first and the last category at 0 instead of from {}.
CategoryTotalsZeroFilled(list) ==
    ReduceFrom(<<[key |-> "food", total |-> 0], [key |-> "other", total |-> 0]>>, list, 1)

\* categoryTotals, as Object.keys / Object.values enumerate it.
CategoryTotals(list) == ReduceFrom(<<>>, list, 1)

\* The pie chart effect: with a month selected the chart gets the totals of
\* the filtered list; with none the effect does nothing.
PieChartEffect(old, filtered, my) ==
    IF my # "" THEN CategoryTotals(filtered) ELSE old


----------------------------------------------------------------------------
(* The component's form and messages *)

MaxTimers == 1      \* showMessage timers that may be pending at once

AmountStrings == {"", "0", "-5", "4"}
Descriptions == {"", " ", "lunch"}
FormDates == {"", "2024-03-01", "2024-04-01"}

\* The number a form string converts to, in `formData.amount <= 0` and in
\* parseFloat (the two agree on the model's strings that pass validation).
ToNumber(str) ==
    CASE str = "" -> 0
      [] str = "0" -> 0
      [] str = "-5" -> -5
      [] str = "4" -> 4

ParseFloat(str) == IF str = "" THEN NaN ELSE ToNumber(str)

\* String.prototype.trim
Trim(str) == IF str = " " THEN "" ELSE str

EmptyForm == [amount |-> "", category |-> "food", description |-> "", date |-> ""]

FilledForm == [amount |-> "4", category |-> "food", description |-> "lunch",
               date |-> "2024-03-01"]

\* The forms a user submits: two that pass the checks, and one for each way
\* of failing one.
FormInputs ==
    { FilledForm,
      [FilledForm EXCEPT !.category = "other", !.date = "2024-04-01"] }
    \cup { [FilledForm EXCEPT !.amount = a] : a \in AmountStrings }
    \cup { [FilledForm EXCEPT !.description = d] : d \in Descriptions }
    \cup { [FilledForm EXCEPT !.date = d] : d \in FormDates }

NoMessage == [text |-> "", type |-> ""]

\* ValidationError with a slip: the amount check is `< 0`, not `<= 0`.
ValidationErrorAllowsZero(fd) ==
    IF fd.amount = "" \/ ToNumber(fd.amount) < 0 THEN "Amount Must Be Greater Than 0"
    ELSE IF Trim(fd.description) = "" THEN "Description is required"
    ELSE IF fd.date = "" THEN "Date is required"
    ELSE ""

\* The checks addExpense makes, in their order; "" when the form passes.
ValidationError(fd) ==
    IF fd.amount = "" \/ ToNumber(fd.amount) <= 0 THEN "Amount Must Be Greater Than 0"
    ELSE IF Trim(fd.description) = "" THEN "Description is required"
    ELSE IF fd.date = "" THEN "Date is required"
    ELSE ""

\* The type a validation message is shown with: app.jsx calls
\* showMessage(text, 'error'); App.jsx throws, and its catch calls
\* showMessage(error.message, "Error").
ValidationType(v) == IF v = "app" THEN "error" ELSE "Error"

\* The type the catch of addExpense shows a rejected save with: app.jsx calls
\* showMessage(error.message), whose type defaults to 'success'.
CatchType(v) == IF v = "app" THEN "success" ELSE "Error"

\* newExpense = { ...formData, amount: parseFloat(formData.amount) }
NewExpense(fd) ==
    [id |-> NoId, amount |-> ParseFloat(fd.amount), category |-> fd.category,
     description |-> fd.description, date |-> fd.date]

\* The comparator with a slip: a.date - b.date, oldest first.
CompareAsc(a, b) ==
    LET ta == NewDate(a.date)
        tb == NewDate(b.date)
    IN  IF ta = NaN \/ tb = NaN THEN 0 ELSE ta - tb

\* The comparator (a, b) => new Date(b.date) - new Date(a.date); a NaN
\* result counts as 0.
CompareDesc(a, b) ==
    LET ta == NewDate(a.date)
        tb == NewDate(b.date)
    IN  IF ta = NaN \/ tb = NaN THEN 0 ELSE tb - ta

RECURSIVE InsertSorted(_, _)
\* r goes behind every element that does not sort after it (a stable sort).
InsertSorted(sorted, r) ==
    IF sorted = <<>> THEN <<r>>
    ELSE IF CompareDesc(sorted[Len(sorted)], r) <= 0 THEN Append(sorted, r)
    ELSE Append(InsertSorted(SubSeq(sorted, 1, Len(sorted) - 1), r), sorted[Len(sorted)])

RECURSIVE SortFrom(_, _, _)
SortFrom(sorted, list, i) ==
    IF i > Len(list) THEN sorted ELSE SortFrom(InsertSorted(sorted, list[i]), list, i + 1)

\* list.sort((a, b) => new Date(b.date) - new Date(a.date))
SortByDateDesc(list) == SortFrom(<<>>, list, 1)

NoEvent ==
    [handler |-> "", form |-> EmptyForm, opsBefore |-> 0, storeBefore |-> {},
     expensesBefore |-> <<>>]

Event(h) ==
    [handler |-> h, form |-> formData, opsBefore |-> Len(ops), storeBefore |-> store,
     expensesBefore |-> expenses]

\* pieChart: what the state refers to ("none" for null, else the state of
\* that Chart instance), how many Chart instances are live on the canvas,
\* the first call made on an instance that the library does not expect, and
\* whether the component has been unmounted.
NoChart == [ref |-> "none", live |-> 0, misuse |-> "", unmounted |-> FALSE]

\* A call that is out of place is kept if it is the first.
Misused(c, call) == IF c.misuse = "" THEN [c EXCEPT !.misuse = call] ELSE c

\* new Chart(ctx, ...) and setPieChart(newPieChart)
ChartCreate(c) ==
    [(IF c.live > 0 THEN Misused(c, "createOverLive") ELSE c)
     EXCEPT !.ref = "live", !.live = c.live + 1]

\* pieChart.update() on the instance the state refers to
ChartUpdate(c) == IF c.ref = "live" THEN c ELSE Misused(c, "updateDestroyed")

\* instance.destroy() on an instance in state `instance`; the state keeps
\* referring to what it referred to.
ChartDestroy(c, instance) ==
    IF instance = "live" THEN [c EXCEPT !.live = c.live - 1]
    ELSE Misused(c, "destroyAgain")

\* The chart effect of app.jsx and App.jsx and the renders it causes: with a
\* month selected the chart the state refers to is updated, or a chart is
\* created when the state is null; the new state makes app.jsx run the
\* effect once more (pieChart is among its dependencies), which updates.
ChartEffect(c, my) ==
    IF my = "" THEN c
    ELSE IF c.ref # "none" THEN ChartUpdate(c)
    ELSE IF variant = "app" THEN ChartUpdate(ChartCreate(c))
    ELSE ChartCreate(c)

\* A render and the effects after it: the filtered list and the chart follow
\* the new record list and month. An unmounted component renders nothing.
Render(exps, my) ==
    IF pieChart.unmounted THEN UNCHANGED <<filteredExpenses, chartData, pieChart>>
    ELSE
    /\ filteredExpenses' = FilteredExpenses(exps, my, utcOffset)
    /\ chartData' = PieChartEffect(chartData, FilteredExpenses(exps, my, utcOffset), my)
    /\ pieChart' = ChartEffect(pieChart, my)

\* showMessage(text, type)
\* showMessage without its setTimeout.
ShowMessageNoTimer(text, type) ==
    /\ message' = [text |-> text, type |-> type]
    /\ timers' = timers

ShowMessage(text, type) ==
    /\ message' = [text |-> text, type |-> type]
    /\ timers' = timers + 1

Client == [handler |-> "client", expenses |-> <<>>]

\* Another context of the same origin, which places requests on the same
\* database.
Foreign == [handler |-> "foreign", expenses |-> <<>>]

\* What runs when call `op` settles: the rest of the async function that
\* awaited it, with the `expenses` its closure captured.
Resume(op) ==
    LET h == op.caller.handler
        captured == op.caller.expenses
    IN
    IF h = "fetchExpenses" /\ op.outcome = "resolved" THEN
        /\ expenses' = SortByDateDesc(op.resList)
        /\ Render(SortByDateDesc(op.resList), monthYear)
        /\ UNCHANGED <<mounted, formData, monthYear, message, timers>>
    ELSE IF h = "fetchExpenses" /\ variant = "app" THEN
        /\ ShowMessage("Failed to load expenses", "error")
        /\ UNCHANGED <<mounted, formData, monthYear, expenses, filteredExpenses, chartData, pieChart>>
    ELSE IF h = "addExpense" /\ op.outcome = "resolved" THEN
        LET updatedExpenses ==
                SortByDateDesc(Append(captured, [op.data EXCEPT !.id = op.resId]))
        IN  /\ expenses' = updatedExpenses
            /\ formData' = EmptyForm
            /\ ShowMessage("Expense Added Successfully!", "success")
            /\ Render(updatedExpenses, monthYear)
            /\ UNCHANGED <<mounted, monthYear>>
    ELSE IF h = "addExpense" THEN
        /\ ShowMessage(op.error, CatchType(variant))
        /\ UNCHANGED <<mounted, formData, monthYear, expenses, filteredExpenses, chartData, pieChart>>
    ELSE IF h = "deleteExpense" /\ op.outcome = "resolved" THEN
        LET updatedExpenses == SelectSeq(captured, LAMBDA e : e.id # op.key)
        IN  /\ expenses' = updatedExpenses
            /\ ShowMessage("Expense Deleted Successfully!", "success")
            /\ Render(updatedExpenses, monthYear)
            /\ UNCHANGED <<mounted, formData, monthYear>>
    ELSE UNCHANGED uiVars


----------------------------------------------------------------------------
(* The storage engine's events *)

\* request.onsuccess of indexedDB.open for the oldest call still opening
\* (open requests are served in order). Opening a database that does not
\* exist creates it and fires onupgradeneeded, which creates the store. The
\* method then creates its transaction and places its request, or throws.
OpenSuccess(i) ==
    /\ idbAvailable
    /\ ops[i].caller # Foreign
    /\ ops[i].pc = "open"
    /\ \A j \in 1..(i - 1) : ops[j].pc # "open"
    /\ dbVersion' = IF dbVersion = 0 THEN 1 ELSE dbVersion
    /\ hasStore' = IF dbVersion = 0 THEN TRUE ELSE hasStore
    /\ LET err == ThrownError(ops[i], hasStore')
           settled == [ops[i] EXCEPT !.pc = "finished", !.outcome = "rejected",
                                     !.error = err, !.pre = store, !.post = store]
       IN  IF err # ""
           THEN /\ ops' = [ops EXCEPT ![i] = settled]
                /\ Resume(settled)
           ELSE /\ ops' = [ops EXCEPT ![i].pc = "tx"]
                /\ UNCHANGED uiVars
    /\ lastEvent' = NoEvent
    /\ UNCHANGED <<store, keyGen, generated, hostVars>>

\* RequestEffect with a slip: delete leaves the records as they are.
RequestEffectKeeps(op, S, kg) ==
    IF op.kind = "save" THEN PutRecord(S, op.data, kg)
    ELSE IF op.kind = "clear" THEN ClearRecords(S)
    ELSE S

\* What the request of call `op` does to the records its transaction sees.
RequestEffect(op, S, kg) ==
    IF op.kind = "save" THEN PutRecord(S, op.data, kg)
    ELSE IF op.kind = "delete" THEN DeleteRecord(S, op.key)
    ELSE IF op.kind = "clear" THEN ClearRecords(S)
    ELSE S

\* request.onsuccess of the call's put / getAll / delete / clear: the request
\* has run inside the call's transaction and the promise resolves with
\* request.result; the awaiting function continues in the same task.
RequestSuccess(i) ==
    /\ ops[i].pc = "tx"
    /\ CanStart(i)
    /\ LET op == ops[i]
           settled ==
               [op EXCEPT !.pc = "done", !.outcome = "resolved",
                          !.pre = store, !.kgPre = keyGen,
                          !.post = RequestEffect(op, store, keyGen),
                          !.kgPost = IF op.kind = "save"
                                     THEN PutKeyGen(op.data, keyGen) ELSE keyGen,
                          !.resId = IF op.kind = "save"
                                    THEN PutKey(op.data, keyGen) ELSE NoId,
                          !.resList = IF op.kind = "getAll"
                                      THEN SortById(store) ELSE <<>>]
       IN  /\ ops' = [ops EXCEPT ![i] = settled]
           /\ generated' = IF op.kind = "save" /\ op.data.id = NoId
                           THEN Append(generated, keyGen) ELSE generated
           /\ Resume(settled)
    /\ lastEvent' = NoEvent
    /\ UNCHANGED <<dbVersion, hasStore, store, keyGen, hostVars>>

\* The call's transaction has no request left and commits: what it wrote
\* becomes the store's content.
Complete(i) ==
    /\ ops[i].pc = "done"
    /\ ops' = [ops EXCEPT ![i].pc = "finished"]
    /\ store' = IF Mode(ops[i].kind) = "readwrite" THEN ops[i].post ELSE store
    /\ keyGen' = IF Mode(ops[i].kind) = "readwrite" THEN ops[i].kgPost ELSE keyGen
    /\ lastEvent' = NoEvent
    /\ UNCHANGED <<dbVersion, hasStore, generated, hostVars, uiVars>>

----------------------------------------------------------------------------
(* An arbitrary caller of the wrapper *)

\* The call is appended to the calls made; nothing else changes yet.
Issue(op) ==
    /\ ops' = Append(ops, op)
    /\ lastEvent' = NoEvent
    /\ UNCHANGED <<dbVars, hostVars, uiVars>>

CallSave ==
    /\ CanCall
    /\ \E d \in SampleData, k \in 0..MaxKey :
          Issue(NewOp("save", [d EXCEPT !.id = k], NoId, Client))

CallGetAll ==
    /\ CanCall
    /\ Issue(NewOp("getAll", NoData, NoId, Client))

CallDelete ==
    /\ CanCall
    /\ \E k \in 0..(MaxKey + 1) : Issue(NewOp("delete", NoData, k, Client))

CallClear ==
    /\ CanCall
    /\ Issue(NewOp("clear", NoData, NoId, Client))

InitUi ==
    /\ mounted = FALSE
    /\ formData = EmptyForm
    /\ monthYear = ""
    /\ expenses = <<>>
    /\ message = NoMessage
    /\ timers = 0
    /\ filteredExpenses = <<>>
    /\ chartData = <<>>
    /\ pieChart = NoChart
    /\ lastEvent = NoEvent

InitFreshDb ==
    /\ dbVersion = 0
    /\ hasStore = FALSE
    /\ store = {}
    /\ keyGen = 1
    /\ generated = <<>>
    /\ ops = <<>>

Init ==
    /\ InitFreshDb
    /\ InitUi
    /\ variant = "app"
    /\ utcOffset = 0
    /\ idbAvailable = TRUE

Engine ==
    \/ \E i \in 1..Len(ops) : OpenSuccess(i)
    \/ \E i \in 1..Len(ops) : RequestSuccess(i)
    \/ \E i \in 1..Len(ops) : Complete(i)

Next == CallSave \/ CallGetAll \/ CallDelete \/ CallClear \/ Engine

Spec == Init /\ [][Next]_vars


----------------------------------------------------------------------------
(* The ExpenseTracker component *)

MaxAppOps == 3      \* wrapper calls the component makes per behaviour

Variants == {"app", "App"}

UtcOffsets == {-5, 0, 2}

\* The hosts the component is run on: one west of Greenwich, one not.
HostOffsets == {-5, 0}

\* What an earlier session left in the database.
PersistedRecords ==
    { [id |-> 1, amount |-> 4, category |-> "food", description |-> "lunch",
       date |-> "2024-03-01"],
      [id |-> 2, amount |-> 4, category |-> "other", description |-> "lunch",
       date |-> "2024-04-01"] }

CanCallApp == Len(ops) < MaxAppOps /\ Cardinality(Unfinished) < MaxPending

\* The mount effect: fetchExpenses() calls expenseDB.getAll().
Mount ==
    /\ variant \in Variants
    /\ ~mounted
    /\ mounted' = TRUE
    /\ ops' = Append(ops, NewOp("getAll", NoData, NoId,
                                [handler |-> "fetchExpenses", expenses |-> expenses]))
    /\ lastEvent' = NoEvent
    /\ UNCHANGED <<dbVars, hostVars, formData, monthYear, expenses, message, timers,
                   filteredExpenses, chartData, pieChart>>

\* The user fills the form (handleInputChange, once per field edited) and
\* submits it: addExpense, up to its `await expenseDB.save(newExpense)`. A
\* form that fails a check gets its message and nothing else happens.
AddExpense ==
    /\ variant \in Variants
    /\ mounted
    /\ \E fd \in FormInputs :
          /\ formData' = fd
          /\ IF ValidationError(fd) # ""
             THEN /\ timers < MaxTimers
                  /\ ShowMessage(ValidationError(fd), ValidationType(variant))
                  /\ UNCHANGED ops
             ELSE /\ CanCallApp
                  /\ ops' = Append(ops, NewOp("save", NewExpense(fd), NoId,
                                              [handler |-> "addExpense",
                                               expenses |-> expenses]))
                  /\ UNCHANGED <<message, timers>>
          /\ lastEvent' = [Event("addExpense") EXCEPT !.form = fd]
    /\ UNCHANGED <<dbVars, hostVars, mounted, monthYear, expenses, filteredExpenses,
                   chartData, pieChart>>

\* deleteExpense with a slip: the answer to the prompt is not looked at.
DeleteExpenseUnasked ==
    /\ variant \in Variants
    /\ mounted
    /\ \E n \in 1..Len(filteredExpenses), confirmed \in BOOLEAN :
          /\ CanCallApp
          /\ ops' = Append(ops, NewOp("delete", NoData, filteredExpenses[n].id,
                                      [handler |-> "deleteExpense",
                                       expenses |-> expenses]))
          /\ lastEvent' = Event(IF confirmed THEN "deleteExpense"
                                ELSE "deleteExpenseDeclined")
    /\ UNCHANGED <<dbVars, hostVars, uiVars>>

\* deleteExpense(id), from the Delete button of a rendered record, up to its
\* `await expenseDB.delete(id)`; declining the prompt ends it.
DeleteExpense ==
    /\ variant \in Variants
    /\ mounted
    /\ \E n \in 1..Len(filteredExpenses), confirmed \in BOOLEAN :
          /\ IF confirmed
             THEN /\ CanCallApp
                  /\ ops' = Append(ops, NewOp("delete", NoData, filteredExpenses[n].id,
                                              [handler |-> "deleteExpense",
                                               expenses |-> expenses]))
             ELSE UNCHANGED ops
          /\ lastEvent' = Event(IF confirmed THEN "deleteExpense"
                                ELSE "deleteExpenseDeclined")
    /\ UNCHANGED <<dbVars, hostVars, uiVars>>

\* The month field's onChange: setMonthYear(e.target.value).
SetMonthYear ==
    /\ variant \in Variants
    /\ ~pieChart.unmounted
    /\ \E m \in MonthStrings \cup {""} :
          /\ m # monthYear
          /\ monthYear' = m
          /\ Render(expenses, m)
    /\ lastEvent' = NoEvent
    /\ UNCHANGED <<dbVars, ops, hostVars, mounted, formData, expenses, message, timers>>

\* A timeout of showMessage fires: setMessage({ text: '', type: '' }).
TimerFires ==
    /\ timers > 0
    /\ timers' = timers - 1
    /\ message' = NoMessage
    /\ lastEvent' = NoEvent
    /\ UNCHANGED <<dbVars, ops, hostVars, mounted, formData, monthYear, expenses,
                   filteredExpenses, chartData, pieChart>>

InitApp ==
    /\ InitUi
    /\ variant \in Variants
    /\ utcOffset \in HostOffsets
    /\ idbAvailable = TRUE
    /\ ops = <<>>
    /\ \/ InitFreshDb
       \/ /\ dbVersion = 1
          /\ hasStore = TRUE
          /\ store = PersistedRecords
          /\ keyGen = 3
          /\ generated = <<1, 2>>

NextApp ==
    \/ Mount \/ AddExpense \/ DeleteExpense
    \/ SetMonthYear \/ TimerFires \/ Engine

SpecApp == InitApp /\ [][NextApp]_vars

----------------------------------------------------------------------------
(* Claims about the wrapper, checked under Spec *)

Resolved(i) == ops[i].outcome = "resolved"

\* Call j was made after call i had settled, and no call between them writes.
Follows(i, j) ==
    /\ i < j
    /\ i \in ops[j].seen
    /\ \A k \in (i + 1)..(j - 1) : ops[k].kind = "getAll"

\* The positions of a getAll result that hold a record with this id.
WithId(list, id) == { n \in 1..Len(list) : list[n].id = id }

\* The positions of a getAll result that hold a record with these fields.
WithFields(list, r) == { n \in 1..Len(list) : Fields(list[n]) = Fields(r) }

SaveThenGetAll(i, j) ==
    /\ ops[i].kind = "save" /\ ops[i].data.id = NoId /\ Resolved(i)
    /\ ops[j].kind = "getAll" /\ Resolved(j)
    /\ Follows(i, j)

\* C1 as stated: after a save of a record without id has resolved, a following
\* getAll returns exactly one record whose fields equal those of the saved
\* record, and that record carries the non-null id save returned.
C1_Original ==
    \A i, j \in 1..Len(ops) :
        SaveThenGetAll(i, j) =>
            /\ ops[i].resId # NoId
            /\ Cardinality(WithFields(ops[j].resList, ops[i].data)) = 1
            /\ \A n \in WithFields(ops[j].resList, ops[i].data) :
                  ops[j].resList[n].id = ops[i].resId

\* C1, amended: after a save of a record without id has resolved, a following
\* getAll returns exactly one record that carries the id save returned; that
\* id is non-null and the record's fields equal those of the saved record.
\* (Records saved before with the same fields are returned as well.)
C1_SaveThenGetAll ==
    \A i, j \in 1..Len(ops) :
        SaveThenGetAll(i, j) =>
            /\ ops[i].resId # NoId
            /\ Cardinality(WithId(ops[j].resList, ops[i].resId)) = 1
            /\ \A n \in WithId(ops[j].resList, ops[i].resId) :
                  Fields(ops[j].resList[n]) = Fields(ops[i].data)

\* A save after earlier writes, then a getAll that returned several records.
C1_Witness ==
    \E i, j \in 1..Len(ops) :
        /\ SaveThenGetAll(i, j)
        /\ i > 1
        /\ Len(ops[j].resList) > 1

\* C2: for an id returned by an earlier save, after delete(id) has resolved a
\* following getAll holds no record with that id, and holds every other record
\* that was stored before the delete, each with unchanged fields.
C2_DeleteThenGetAll ==
    \A h, i, j \in 1..Len(ops) :
        ( /\ ops[h].kind = "save" /\ Resolved(h) /\ h \in ops[i].seen
          /\ ops[i].kind = "delete" /\ ops[i].key = ops[h].resId /\ Resolved(i)
          /\ ops[j].kind = "getAll" /\ Resolved(j)
          /\ Follows(i, j) )
        => /\ WithId(ops[j].resList, ops[i].key) = {}
           /\ Range(ops[j].resList) = { r \in ops[i].pre : r.id # ops[i].key }
           /\ Len(ops[j].resList) = Cardinality(Range(ops[j].resList))

\* A delete of a stored record, among others that stay.
C2_Witness ==
    \E h, i, j \in 1..Len(ops) :
        /\ ops[h].kind = "save" /\ Resolved(h) /\ h \in ops[i].seen
        /\ ops[i].kind = "delete" /\ ops[i].key = ops[h].resId /\ Resolved(i)
        /\ ops[j].kind = "getAll" /\ Resolved(j)
        /\ Follows(i, j)
        /\ ops[i].key \in Ids(ops[i].pre)
        /\ Len(ops[j].resList) > 0

UniqueIds(S) == \A r, q \in S : r.id = q.id => r = q

\* C3: no two stored records share an id; every stored record got its id from
\* the save that wrote it; the key generator never hands out a key twice, nor
\* a key that a stored record holds, also after records were deleted.
C3_IdsUnique ==
    /\ UniqueIds(store)
    /\ \A i \in 1..Len(ops) : UniqueIds(ops[i].post)
    /\ \A r \in store :
          /\ r.id # NoId
          /\ \E i \in 1..Len(ops) :
                ops[i].kind = "save" /\ ops[i].resId = r.id
                /\ Fields(ops[i].data) = Fields(r)
    /\ \A m, n \in 1..Len(generated) : m # n => generated[m] # generated[n]
    /\ \A i \in 1..Len(ops) :
          (ops[i].kind = "save" /\ ops[i].data.id = NoId /\ Resolved(i))
              => ops[i].resId \notin Ids(ops[i].pre)

\* A key was generated, its record deleted, and another key generated.
C3_Witness ==
    \E h, i, j \in 1..Len(ops) :
        /\ h < i /\ i < j
        /\ ops[h].kind = "save" /\ ops[h].data.id = NoId /\ Resolved(h)
        /\ ops[i].kind \in {"delete", "clear"} /\ Resolved(i)
        /\ ops[h].resId \in Ids(ops[i].pre) /\ ops[h].resId \notin Ids(ops[i].post)
        /\ ops[j].kind = "save" /\ ops[j].data.id = NoId /\ Resolved(j)

\* The last write that committed.
LastCommitted(i) ==
    /\ ops[i].pc = "finished" /\ Resolved(i) /\ Mode(ops[i].kind) = "readwrite"
    /\ \A j \in 1..Len(ops) :
          (j # i /\ ops[j].pc = "finished" /\ Resolved(j)
           /\ Mode(ops[j].kind) = "readwrite") => j < i

\* C4: save of a record whose id is in the store replaces that record's
\* fields, returns that id and leaves the number of records and every other
\* record as they were; save of a record without id adds exactly one record
\* and changes no existing one. What the save wrote is what is committed.
C4_SaveFrame ==
    \A i \in 1..Len(ops) :
        (ops[i].kind = "save" /\ Resolved(i)) =>
            LET op == ops[i] IN
            /\ (op.data.id # NoId /\ op.data.id \in Ids(op.pre)) =>
                  /\ op.resId = op.data.id
                  /\ op.data \in op.post
                  /\ { r \in op.post : r.id # op.data.id }
                        = { r \in op.pre : r.id # op.data.id }
                  /\ Cardinality(op.post) = Cardinality(op.pre)
            /\ op.data.id = NoId =>
                  /\ op.resId \notin Ids(op.pre)
                  /\ [op.data EXCEPT !.id = op.resId] \in op.post
                  /\ op.pre \subseteq op.post
                  /\ Cardinality(op.post) = Cardinality(op.pre) + 1
            /\ LastCommitted(i) => store = op.post

\* A committed save that replaced a record among several.
C4_Witness ==
    \E i \in 1..Len(ops) :
        /\ ops[i].kind = "save" /\ Resolved(i) /\ LastCommitted(i)
        /\ ops[i].data.id # NoId /\ ops[i].data.id \in Ids(ops[i].pre)
        /\ ops[i].data \notin ops[i].pre
        /\ Cardinality(ops[i].pre) > 1

\* C5: delete(id) for a valid id that is not in the store resolves, does not
\* reject, and leaves the stored records as they were.
C5_DeleteAbsent ==
    \A i \in 1..Len(ops) :
        ( /\ ops[i].kind = "delete" /\ ValidKey(ops[i].key) /\ Settled(ops[i])
          /\ ops[i].key \notin Ids(ops[i].pre) )
        => /\ Resolved(i)
           /\ ops[i].post = ops[i].pre
           /\ LastCommitted(i) => store = ops[i].pre

\* A committed delete of an id that was deleted before, on a store that is
\* not empty.
C5_Witness ==
    \E h, i \in 1..Len(ops) :
        /\ h < i
        /\ ops[h].kind = "delete" /\ Resolved(h) /\ ops[h].key \in Ids(ops[h].pre)
        /\ ops[i].kind = "delete" /\ ops[i].key = ops[h].key
        /\ Resolved(i) /\ LastCommitted(i)
        /\ ops[i].pre # {}


----------------------------------------------------------------------------
(* The derived views on drawn inputs *)

MaxLen == 3         \* records in a drawn list

ViewRecords ==
    { [id |-> 1, amount |-> 5, category |-> "food", description |-> "lunch",
       date |-> "2024-03-01"],
      [id |-> 2, amount |-> 4, category |-> "other", description |-> "bus",
       date |-> "2024-03-31"],
      [id |-> 3, amount |-> 1, category |-> "food", description |-> "tea",
       date |-> "2024-03-31"],
      [id |-> 4, amount |-> 4, category |-> "food", description |-> "lunch",
       date |-> "2024-03-01"],
      [id |-> 5, amount |-> 4, category |-> "utilities", description |-> "gas",
       date |-> "2024-04-01"],
      [id |-> 6, amount |-> 1, category |-> "other", description |-> "bus",
       date |-> "2024-04-01"],
      [id |-> 7, amount |-> 4, category |-> "food", description |-> "lunch",
       date |-> "not-a-date"] }

\* The component holds some record list, on some host, and has rendered with
\* no month selected yet: the filtered list is empty and no chart is drawn.
InitView ==
    /\ InitFreshDb
    /\ variant = "app"
    /\ utcOffset \in UtcOffsets
    /\ idbAvailable = TRUE
    /\ mounted = TRUE
    /\ formData = EmptyForm
    /\ message = NoMessage
    /\ timers = 0
    /\ lastEvent = NoEvent
    /\ expenses \in UNION { [1..n -> ViewRecords] : n \in 0..MaxLen }
    /\ monthYear = ""
    /\ filteredExpenses = <<>>
    /\ chartData = <<>>
    /\ pieChart = NoChart

NextView == SetMonthYear

SpecView == InitView /\ [][NextView]_vars

----------------------------------------------------------------------------
(* Claims about the derived views, checked under SpecView *)

RECURSIVE IsSubListFrom(_, _, _, _)
\* f from position i on can be picked, in order, out of s from position j on.
IsSubListFrom(f, i, s, j) ==
    IF i > Len(f) THEN TRUE
    ELSE IF j > Len(s) THEN FALSE
    ELSE IF f[i] = s[j] THEN IsSubListFrom(f, i + 1, s, j + 1)
    ELSE IsSubListFrom(f, i, s, j + 1)

\* The year and month written in the record's date are those written in my.
SameCalendarMonth(expense, my) ==
    /\ DateParts(expense.date) # <<>>
    /\ DateParts(expense.date)[1] = MonthParts(my)[1]
    /\ DateParts(expense.date)[2] = MonthParts(my)[2]

\* C6: the filtered list is a sub-list of the record list in the same order,
\* every record in it has the calendar year and month of the selected month,
\* and with no month selected it is empty.
C6_FilterSubList ==
    /\ IsSubListFrom(filteredExpenses, 1, expenses, 1)
    /\ monthYear # "" =>
          \A i \in 1..Len(filteredExpenses) :
              SameCalendarMonth(filteredExpenses[i], monthYear)
    /\ monthYear = "" => filteredExpenses = <<>>

\* The parts of C6 that do not depend on how a date is matched: sub-list in
\* order, and empty with no month selected.
C6_SubListAndEmpty ==
    /\ IsSubListFrom(filteredExpenses, 1, expenses, 1)
    /\ monthYear = "" => filteredExpenses = <<>>

\* C7: with a month selected, a record dated YYYY-MM-DD is in the filtered
\* list exactly when the year and month of its date are the selected ones,
\* whatever the day and whatever the UTC offset of the host.
C7_FilterByCalendarMonth ==
    monthYear # "" =>
        filteredExpenses =
            SelectSeq(expenses, LAMBDA e : SameCalendarMonth(e, monthYear))

\* C7 restricted to hosts at or east of UTC, where local midnight-UTC dates
\* keep their calendar day.
C7_EastOfUtc ==
    (monthYear # "" /\ utcOffset >= 0) =>
        filteredExpenses =
            SelectSeq(expenses, LAMBDA e : SameCalendarMonth(e, monthYear))

RECURSIVE FSumAmounts(_, _)
\* The amounts of the first n records added left to right with the JS +.
FSumAmounts(list, n) ==
    IF n = 0 THEN 0 ELSE FAdd(FSumAmounts(list, n - 1), list[n].amount)

RECURSIVE FSumTotals(_, _)
\* The first n totals of the chart added left to right with the JS +.
FSumTotals(cd, n) ==
    IF n = 0 THEN 0 ELSE FAdd(FSumTotals(cd, n - 1), cd[n].total)

RECURSIVE ExactSum(_, _)
\* The amounts of the first n records added as real numbers.
ExactSum(list, n) ==
    IF n = 0 THEN 0 ELSE ExactSum(list, n - 1) + list[n].amount

OfCategory(list, c) == SelectSeq(list, LAMBDA e : e.category = c)

Abs(x) == IF x < 0 THEN 0 - x ELSE x

\* Every category total is the sum, in list order, of that category's amounts.
TotalsPerCategory ==
    \A i \in 1..Len(chartData) :
        LET own == OfCategory(filteredExpenses, chartData[i].key)
        IN  chartData[i].total = FSumAmounts(own, Len(own))

FirstOccurrence(list, c) ==
    CHOOSE i \in 1..Len(list) :
        /\ list[i].category = c
        /\ \A j \in 1..(i - 1) : list[j].category # c

\* C9: the keys of the category totals are exactly the categories that occur
\* in the filtered list, each once, in the order of their first occurrence; a
\* category with no record is absent.
C9_KeysInFirstOccurrenceOrder ==
    monthYear # "" =>
        /\ { chartData[i].key : i \in 1..Len(chartData) }
              = { filteredExpenses[i].category : i \in 1..Len(filteredExpenses) }
        /\ \A i, j \in 1..Len(chartData) :
              i < j =>
                  /\ chartData[i].key # chartData[j].key
                  /\ FirstOccurrence(filteredExpenses, chartData[i].key)
                        < FirstOccurrence(filteredExpenses, chartData[j].key)
        /\ \A c \in Categories :
              (\A i \in 1..Len(filteredExpenses) : filteredExpenses[i].category # c)
                  => \A i \in 1..Len(chartData) : chartData[i].key # c

\* A chart whose first key is not the first category of CATEGORIES, over a
\* list where a category repeats and other categories have no record.
C9_Witness ==
    /\ monthYear # ""
    /\ Len(filteredExpenses) = 3
    /\ Len(chartData) = 2
    /\ chartData[1].key = "other"
    /\ chartData[2].key = "food"
    /\ filteredExpenses[3].category = "other"

----------------------------------------------------------------------------
(* Claims about the component, checked under SpecApp *)

\* The amount is empty, zero or negative, or the description is empty or
\* blank, or the date is empty.
InvalidForm(fd) ==
    \/ fd.amount = ""
    \/ ToNumber(fd.amount) <= 0
    \/ Trim(fd.description) = ""
    \/ fd.date = ""

\* The handler that ran last was addExpense, on an invalid form.
InvalidSubmitted ==
    /\ lastEvent.handler = "addExpense"
    /\ InvalidForm(lastEvent.form)

\* C10: addExpense on an invalid form calls no save and leaves the store and
\* the in-memory list as they were, and an error message is shown.
C10_InvalidFormRejected ==
    InvalidSubmitted =>
        /\ Len(ops) = lastEvent.opsBefore
        /\ store = lastEvent.storeBefore
        /\ expenses = lastEvent.expensesBefore
        /\ message.text # ""
        /\ message.type = "error"

\* The part of C10 that holds in both components: no save, store and list
\* unchanged, and the text of the failed check is put on screen.
C10_NothingSaved ==
    InvalidSubmitted =>
        /\ Len(ops) = lastEvent.opsBefore
        /\ store = lastEvent.storeBefore
        /\ expenses = lastEvent.expensesBefore
        /\ message.text = ValidationError(lastEvent.form)
        /\ message.text # ""

\* C10 in the component main.jsx mounts.
C10_RejectedInApp ==
    (variant = "app" /\ InvalidSubmitted) =>
        /\ Len(ops) = lastEvent.opsBefore
        /\ store = lastEvent.storeBefore
        /\ expenses = lastEvent.expensesBefore
        /\ message = [text |-> ValidationError(lastEvent.form), type |-> "error"]

\* An invalid form was submitted while the store and the list held a record.
C10_Reached ==
    /\ InvalidSubmitted
    /\ store # {}
    /\ expenses # <<>>

----------------------------------------------------------------------------
(* The storage engine's failures *)

\* OpenError with a slip: open() sets no request.onerror, so the error event
\* of the open request settles nothing.
OpenErrorUnhandled(i) ==
    /\ idbAvailable
    /\ ops[i].caller # Foreign
    /\ ops[i].pc = "open"
    /\ \A j \in 1..(i - 1) : ops[j].pc # "open"
    /\ ops' = [ops EXCEPT ![i].pc = "finished"]
    /\ lastEvent' = NoEvent
    /\ UNCHANGED <<dbVars, hostVars, uiVars>>

\* request.onerror of indexedDB.open for the oldest call still opening:
\* reject(event.target.error); the awaiting method rejects with it.
OpenError(i) ==
    /\ idbAvailable
    /\ ops[i].caller # Foreign
    /\ ops[i].pc = "open"
    /\ \A j \in 1..(i - 1) : ops[j].pc # "open"
    /\ LET settled == [ops[i] EXCEPT !.pc = "finished", !.outcome = "rejected",
                                     !.error = "UnknownError",
                                     !.pre = store, !.post = store]
       IN  /\ ops' = [ops EXCEPT ![i] = settled]
           /\ Resume(settled)
    /\ lastEvent' = NoEvent
    /\ UNCHANGED <<dbVars, hostVars>>

\* request.onerror of the call's put / getAll / delete / clear:
\* reject(event.target.error). Nothing handles the error event, so the
\* transaction aborts and nothing it did is kept.
RequestError(i) ==
    /\ ops[i].pc = "tx"
    /\ CanStart(i)
    /\ LET settled == [ops[i] EXCEPT !.pc = "aborted", !.outcome = "rejected",
                                     !.error = "QuotaExceededError",
                                     !.pre = store, !.post = store,
                                     !.kgPost = keyGen]
       IN  /\ ops' = [ops EXCEPT ![i] = settled]
           /\ Resume(settled)
    /\ lastEvent' = NoEvent
    /\ UNCHANGED <<dbVars, hostVars>>

\* The call's read-write transaction fails to commit after its request has
\* succeeded: the transaction's abort event fires, which the wrapper does
\* not listen to. The store and the key generator stay as they were; the
\* promise was resolved by request.onsuccess and stays resolved.
Abort(i) ==
    /\ ops[i].pc = "done"
    /\ Mode(ops[i].kind) = "readwrite"
    /\ ops' = [ops EXCEPT ![i].pc = "aborted"]
    /\ lastEvent' = NoEvent
    /\ UNCHANGED <<dbVars, hostVars, uiVars>>

Faults ==
    \/ \E i \in 1..Len(ops) : OpenError(i)
    \/ \E i \in 1..Len(ops) : RequestError(i)
    \/ \E i \in 1..Len(ops) : Abort(i)

\* The database was created earlier under the same name without the
\* wrapper's store (by a wrapper constructed with another storeName): open()
\* finds version 1, so no upgrade runs and the store is never created.
InitDbWithoutStore ==
    /\ dbVersion = 1
    /\ hasStore = FALSE
    /\ store = {}
    /\ keyGen = 1
    /\ generated = <<>>

InitFault ==
    /\ InitUi
    /\ variant \in Variants
    /\ utcOffset = 0
    /\ idbAvailable = TRUE
    /\ ops = <<>>
    /\ InitFreshDb \/ InitDbWithoutStore

NextFault == NextApp \/ Faults

SpecFault == InitFault /\ [][NextFault]_vars

----------------------------------------------------------------------------
(* Claims about failures, checked under SpecFault *)

\* Call i is rejected in this step.
RejectedNow(i) == ops[i].outcome = "pending" /\ ops'[i].outcome = "rejected"

\* The record came out of the store, or was written by a save whose
\* transaction committed or is still to commit.
Committed(r) ==
    \/ r \in PersistedRecords
    \/ \E i \in 1..Len(ops) :
          /\ ops[i].kind = "save"
          /\ ops[i].resId = r.id
          /\ ops[i].pc \in {"done", "finished"}

\* C11, first part: the step in which the save of addExpense or the delete of
\* deleteExpense is rejected leaves the in-memory list as it was.
C11_RejectionKeepsList ==
    [][\A i \in 1..Len(ops) :
          (RejectedNow(i) /\ ops[i].caller.handler \in {"addExpense", "deleteExpense"})
              => expenses' = expenses]_vars

\* C11: a rejected save or delete leaves the in-memory list as it was, and in
\* every reachable state the in-memory list holds no record that the store
\* did not commit.
C11_NoUncommittedRecord ==
    \A n \in 1..Len(expenses) : Committed(expenses[n])

\* C12: a save or delete whose read-write transaction was aborted has its
\* promise rejected, never resolved; a save that resolved with an id is a
\* write that was committed.
C12_AbortRejects ==
    \A i \in 1..Len(ops) :
        (ops[i].kind \in {"save", "delete"} /\ ops[i].pc = "aborted")
            => ops[i].outcome = "rejected"

\* The part of C12 the wrapper keeps: a request that ends in an error event
\* rejects the promise, and the store is as it was.
C12_RequestErrorRejects ==
    [][\A i \in 1..Len(ops) :
          (ops[i].pc = "tx" /\ ops'[i].pc = "aborted")
              => ops'[i].outcome = "rejected" /\ store' = store]_vars

\* The call got its connection: open() resolved for it.
Connected(op) == op.pc # "open" /\ op.error # "UnknownError"

\* C16: whenever open resolves, the named object store exists in the
\* database of the connection, on a fresh database and on one that existed
\* before the first open.
C16_StoreExistsAfterOpen ==
    \A i \in 1..Len(ops) : Connected(ops[i]) => hasStore

\* C16 for the databases open() itself creates: once the database exists it
\* has the store, and no call that got its connection is rejected for a
\* missing store.
C16_OwnDatabaseHasStore ==
    /\ dbVersion > 0 => hasStore
    /\ \A i \in 1..Len(ops) : ops[i].error # "NotFoundError"

\* C18: when the save of addExpense or the getAll of the initial load is
\* rejected, a message of type 'error' is shown.
C18_FailureShownAsError ==
    [][\A i \in 1..Len(ops) :
          (RejectedNow(i) /\ ops[i].caller.handler \in {"addExpense", "fetchExpenses"})
              => message'.text # "" /\ message'.type = "error"]_vars

\* The part of C18 that app.jsx keeps: a rejected initial getAll shows
\* 'Failed to load expenses' with type 'error'.
C18_LoadFailureShownInApp ==
    [][\A i \in 1..Len(ops) :
          (RejectedNow(i) /\ ops[i].caller.handler = "fetchExpenses" /\ variant = "app")
              => message' = [text |-> "Failed to load expenses", type |-> "error"]]_vars

\* The second part of C18: a rejected call leaves the component mounted and
\* the form as the user filled it, so that it can be submitted again.
C18_StaysUsable ==
    [][\A i \in 1..Len(ops) :
          RejectedNow(i) => mounted' /\ formData' = formData]_vars

----------------------------------------------------------------------------
(* Claims about the component over a healthy engine, checked under SpecApp *)

\* Every call so far was made after all earlier calls had settled, and all
\* of them have resolved and committed: the initial load, then adds and
\* deletes one at a time.
OneAtATime ==
    /\ Len(ops) > 0
    /\ \A j \in 1..Len(ops) :
          /\ ops[j].seen = 1..(j - 1)
          /\ ops[j].pc = "finished"
          /\ Resolved(j)

\* C13: once the initial load has completed, after successful adds and
\* deletes issued one at a time, the in-memory list holds exactly the stored
\* records: the same ids with the same fields, each once.
C13_CacheEqualsStore ==
    OneAtATime =>
        /\ Range(expenses) = store
        /\ Len(expenses) = Cardinality(store)

\* The initial load, an add and a delete, one at a time, with a record left.
C13_Witness ==
    /\ OneAtATime
    /\ Len(ops) = 3
    /\ ops[2].kind = "save"
    /\ ops[3].kind = "delete"
    /\ ops[3].pre # ops[3].post
    /\ store # {}

----------------------------------------------------------------------------
(* Claims about overlapping calls of the wrapper, checked under Spec *)

\* Calls i and i + 1 are a save or delete each, the second made while the
\* first had not settled, and both have resolved and committed.
Overlapping(i) ==
    /\ i + 1 <= Len(ops)
    /\ \A k \in {i, i + 1} :
          /\ ops[k].kind \in {"save", "delete"}
          /\ ops[k].pc = "finished"
          /\ Resolved(k)
    /\ i \notin ops[i + 1].seen

\* The id the call addressed.
Addressed(op) == IF op.kind = "save" THEN op.resId ELSE op.key

\* The caller named the id: a delete, or a save of a record that carries one.
NamesItsId(op) == op.kind = "delete" \/ op.data.id # NoId

\* The key generator after the request of `op`.
KeyGenAfter(op, kg) == IF op.kind = "save" THEN PutKeyGen(op.data, kg) ELSE kg

\* The records after running `first` and then `second`, each to its end, from
\* records S and key generator kg.
OneAfterTheOther(first, second, S, kg) ==
    RequestEffect(second, RequestEffect(first, S, kg), KeyGenAfter(first, kg))

\* The later call's write is what the store holds under the id.
LastWins(op, S) ==
    IF op.kind = "save"
    THEN [op.data EXCEPT !.id = op.resId] \in S
    ELSE op.key \notin Ids(S)

\* C14: for two overlapping save/delete calls, when both address different
\* ids (a delete's id, the id a saved record carries) the final store is that
\* of running them one after the other in either order; with the same id it
\* reflects the call that committed last; two overlapping saves of records
\* without id receive different ids. In every case the final store is that
\* of running the two in the order they were called (which is the order in
\* which records without id receive their ids).
C14_OverlappingWrites ==
    \A i \in 1..Len(ops) :
        Overlapping(i) =>
            LET a == ops[i]
                b == ops[i + 1]
            IN  /\ b.post = OneAfterTheOther(a, b, a.pre, a.kgPre)
                /\ (NamesItsId(a) /\ NamesItsId(b) /\ Addressed(a) # Addressed(b)) =>
                      b.post = OneAfterTheOther(b, a, a.pre, a.kgPre)
                /\ Addressed(a) = Addressed(b) => LastWins(b, b.post)
                /\ (a.kind = "save" /\ b.kind = "save"
                    /\ a.data.id = NoId /\ b.data.id = NoId) => a.resId # b.resId
                /\ LastCommitted(i + 1) => store = b.post

\* A delete of a stored record overlapping a save of another id, both
\* committed.
C14_Witness ==
    \E i \in 1..Len(ops) :
        /\ Overlapping(i)
        /\ ops[i].kind = "delete" /\ ops[i].key \in Ids(ops[i].pre)
        /\ ops[i + 1].kind = "save" /\ ops[i + 1].data.id # NoId
        /\ Addressed(ops[i]) # Addressed(ops[i + 1])
        /\ LastCommitted(i + 1)

\* A step of call i that belongs to open() or to getAll.
OpenOrGetAllStep(i) ==
    /\ ops'[i] # ops[i]
    /\ ops[i].kind = "getAll" \/ ops[i].pc = "open"

\* C17: getAll returns every record that is stored when its transaction
\* runs, each once, and changes nothing: no step of an open or of a getAll
\* changes the stored records or the next id to be assigned.
C17_GetAllReadsOnly ==
    /\ [](\A i \in 1..Len(ops) :
            (ops[i].kind = "getAll" /\ Resolved(i)) =>
                /\ Range(ops[i].resList) = ops[i].pre
                /\ Len(ops[i].resList) = Cardinality(ops[i].pre)
                /\ ops[i].post = ops[i].pre
                /\ ops[i].kgPost = ops[i].kgPre)
    /\ [][\A i \in 1..Len(ops) :
            OpenOrGetAllStep(i) => store' = store /\ keyGen' = keyGen]_vars

\* A committed getAll that returned two records, after which two are stored.
C17_Witness ==
    \E i \in 1..Len(ops) :
        /\ ops[i].kind = "getAll" /\ Resolved(i) /\ ops[i].pc = "finished"
        /\ Len(ops[i].resList) = 2
        /\ Cardinality(store) = 2

----------------------------------------------------------------------------
(* Claims about the chart, checked under SpecView *)

\* The chart holds one entry per category of the filtered list, each with
\* that category's total.
ChartIsAggregation ==
    /\ { chartData[i].key : i \in 1..Len(chartData) }
          = { filteredExpenses[i].category : i \in 1..Len(filteredExpenses) }
    /\ \A i, j \in 1..Len(chartData) : chartData[i].key = chartData[j].key => i = j
    /\ TotalsPerCategory

\* C20: after any change of the month or of the record list, once the
\* effects have run, the chart holds the per-category aggregation of the
\* currently filtered list; with no month selected it holds no category.
C20_ChartFollowsFilter ==
    /\ filteredExpenses = FilteredExpenses(expenses, monthYear, utcOffset)
    /\ ChartIsAggregation
    /\ monthYear = "" => chartData = <<>>

\* C20 while a month is selected.
C20_ChartWithMonthSelected ==
    /\ filteredExpenses = FilteredExpenses(expenses, monthYear, utcOffset)
    /\ monthYear # "" => ChartIsAggregation

----------------------------------------------------------------------------
(* Whether calls settle *)

MaxLiveOps == 3     \* requests on the database per behaviour

\* A caller calls one of the four methods.
LiveCall ==
    /\ Len(ops) < MaxLiveOps
    /\ \E kind \in {"save", "getAll", "delete", "clear"}, d \in SampleData :
          Issue(NewOp(kind,
                      IF kind = "save" THEN d ELSE NoData,
                      IF kind = "delete" THEN 1 ELSE NoId,
                      Client))

\* indexedDB.open(...) on a host without indexedDB throws a ReferenceError
\* inside the promise executor of open(), which rejects the promise.
OpenThrows(i) ==
    /\ ~idbAvailable
    /\ ops[i].pc = "open"
    /\ ops[i].caller # Foreign
    /\ LET settled == [ops[i] EXCEPT !.pc = "finished", !.outcome = "rejected",
                                     !.error = "ReferenceError",
                                     !.pre = store, !.post = store]
       IN  /\ ops' = [ops EXCEPT ![i] = settled]
           /\ Resume(settled)
    /\ lastEvent' = NoEvent
    /\ UNCHANGED <<dbVars, hostVars>>

\* Another context calls indexedDB.deleteDatabase(dbName): the request joins
\* the database's queue behind the open requests already placed.
ForeignRequest ==
    /\ idbAvailable
    /\ Len(ops) < MaxLiveOps
    /\ \A j \in 1..Len(ops) : ops[j].caller # Foreign
    /\ Issue(NewOp("deleteDatabase", NoData, NoId, Foreign))

\* The call holds a connection: open() resolved for it, and the wrapper
\* never calls db.close() nor listens to versionchange.
HoldsConnection(op) == op.caller # Foreign /\ Connected(op)

\* The deletion goes ahead once no connection is open. A connection of the
\* wrapper closes only when its IDBDatabase object, no longer referenced
\* after the call's transaction has finished, is garbage collected; until
\* then the deletion, and every open() queued behind it, waits.
ForeignProceeds(i) ==
    /\ ops[i].caller = Foreign
    /\ ops[i].pc = "open"
    /\ \A j \in 1..(i - 1) : ops[j].pc # "open"
    /\ \A j \in 1..Len(ops) :
          HoldsConnection(ops[j]) => ops[j].pc \in {"finished", "aborted"}
    /\ ops' = [ops EXCEPT ![i].pc = "finished", ![i].outcome = "resolved"]
    /\ dbVersion' = 0
    /\ hasStore' = FALSE
    /\ store' = {}
    /\ keyGen' = 1
    /\ lastEvent' = NoEvent
    /\ UNCHANGED <<generated, hostVars, uiVars>>

InitLive ==
    /\ InitUi
    /\ variant = "app"
    /\ utcOffset = 0
    /\ idbAvailable \in BOOLEAN
    /\ ops = <<>>
    /\ InitFreshDb \/ (idbAvailable /\ InitDbWithoutStore)

\* The events the engine owes to a request that is under way.
EngineLive ==
    \/ Engine
    \/ Faults
    \/ \E i \in 1..Len(ops) : OpenThrows(i)

\* The engine serves the other context's request.
ForeignServed == \E i \in 1..Len(ops) : ForeignProceeds(i)

NextLive ==
    \/ LiveCall
    \/ ForeignRequest
    \/ ForeignServed
    \/ EngineLive

\* The engine answers every request it can serve with a success or an error
\* event, commits or aborts every transaction whose requests are done, and
\* collects unreferenced connections.
SpecLive ==
    InitLive /\ [][NextLive]_vars /\ WF_vars(EngineLive) /\ WF_vars(ForeignServed)

Pending(i) == Len(ops) >= i /\ ops[i].caller = Client /\ ops[i].outcome = "pending"

\* A request of another context lies before call i in the queue and waits.
QueuedBehindForeign(i) ==
    \E j \in 1..(i - 1) : ops[j].caller = Foreign /\ ops[j].pc = "open"

C15_RejectsWithoutIndexedDB ==
    ~idbAvailable =>
        /\ store = {}
        /\ \A i \in 1..Len(ops) : ops[i].outcome # "resolved"

----------------------------------------------------------------------------
(* The component on the global store (idb.js, from line 72) *)

\* The component reaches its database through window.idb, a library that is
\* loaded apart from the sources modelled here: openCostsDB(name, version)
\* gives a promise of the database, and the database's addCost(cost) gives a
\* promise of a truthy result once the cost is added. Its calls are entries
\* of ops with their own positions: "wait" (waitForIDB polls), "libopen"
\* (openCostsDB is pending), "gtx" (a request is placed on the open
\* database), "gdone" (the request succeeded, the transaction is to commit).

MaxGlobalOps == 5   \* calls the component on the global store makes per behaviour
MaxGlobalAdds == 1  \* valid forms submitted to it per behaviour

\* The form as the component resets it: the date is today's.
GlobalEmptyForm == [EmptyForm EXCEPT !.date = "2024-03-01"]

\* isDbInitialized with a slip: true as soon as initDb has been started.
GlobalInitializedOnStart ==
    \E i \in 1..Len(ops) : ops[i].kind = "openCostsDB"

\* isDbInitialized (and db): openCostsDB has resolved.
GlobalInitialized ==
    \E i \in 1..Len(ops) : ops[i].kind = "openCostsDB" /\ ops[i].outcome = "resolved"

\* fetchExpensesForMonth(selectedMonth): a getAll request on a read-only
\* transaction of the open database.
FetchOp(selectedMonth) ==
    [NewOp("getAll", NoData, NoId,
           [handler |-> "fetchExpensesForMonth", expenses |-> expenses,
            month |-> selectedMonth])
     EXCEPT !.pc = "gtx"]

\* The chart effect of this component and the render it causes. The effect
\* destroys the chart its closure's pieChart refers to and sets the state to
\* null, then creates a chart and sets the state to it when a month is
\* selected and the list is not empty. In the render that follows, the
\* state has changed if it was not null before or a chart was created, and
\* the cleanup of the effect on [pieChart] runs with the pieChart of the
\* render before: it destroys that instance if it is not null.
GlobalChartEffect(c, exps, my) ==
    LET before == c.ref
        destroyed == IF before # "none"
                     THEN [ChartDestroy(c, before) EXCEPT !.ref = "none"]
                     ELSE c
        created == IF my # "" /\ exps # <<>> THEN ChartCreate(destroyed) ELSE destroyed
    IN  IF before # "none"
        THEN ChartDestroy(created, "destroyed")
        ELSE created

\* The chart effect of this component: the chart is destroyed, and drawn
\* again from the displayed list when a month is selected and the list is
\* not empty.
GlobalRender(exps, my) ==
    IF pieChart.unmounted THEN UNCHANGED <<filteredExpenses, chartData, pieChart>>
    ELSE
    /\ filteredExpenses' = exps
    /\ chartData' = IF my # "" /\ exps # <<>> THEN CategoryTotals(exps) ELSE <<>>
    /\ pieChart' = GlobalChartEffect(pieChart, exps, my)

\* The mount effect: initDb() starts and waits for window.idb.
GlobalMount ==
    /\ variant = "idb"
    /\ ~mounted
    /\ mounted' = TRUE
    /\ ops' = Append(ops, [NewOp("openCostsDB", NoData, NoId,
                                 [handler |-> "initDb", expenses |-> expenses,
                                  month |-> monthYear])
                           EXCEPT !.pc = "wait"])
    /\ lastEvent' = NoEvent
    /\ UNCHANGED <<dbVars, hostVars, formData, monthYear, expenses, message, timers,
                   filteredExpenses, chartData, pieChart>>

\* checkIDB finds window.idb; initDb calls idb.openCostsDB("costsdb", 1).
GlobalLibraryReady(i) ==
    /\ ops[i].pc = "wait"
    /\ ops' = [ops EXCEPT ![i].pc = "libopen"]
    /\ lastEvent' = NoEvent
    /\ UNCHANGED <<dbVars, hostVars, uiVars>>

\* openCostsDB resolves: db = database, setIsDbInitialized(true) and
\* fetchExpensesForMonth(monthYear) with the month initDb's closure holds,
\* the one selected at mount; then the effect on [monthYear,
\* isDbInitialized] runs and fetches for the month selected now, if any.
GlobalOpenResolves(i) ==
    /\ ops[i].pc = "libopen"
    /\ dbVersion' = 1
    /\ hasStore' = TRUE
    /\ LET opened == Append([ops EXCEPT ![i].pc = "finished",
                                         ![i].outcome = "resolved"],
                             FetchOp(ops[i].caller.month))
       IN  ops' = IF monthYear # "" THEN Append(opened, FetchOp(monthYear)) ELSE opened
    /\ lastEvent' = NoEvent
    /\ UNCHANGED <<store, keyGen, generated, hostVars, uiVars>>

\* openCostsDB rejects: the catch of initDb calls setMessage itself, not
\* showMessage, so no timer is started.
GlobalOpenRejects(i) ==
    /\ ops[i].pc = "libopen"
    /\ ops' = [ops EXCEPT ![i].pc = "finished", ![i].outcome = "rejected",
                          ![i].error = "OpenError"]
    /\ message' = [text |-> "Failed to initialize database", type |-> "error"]
    /\ lastEvent' = NoEvent
    /\ UNCHANGED <<dbVars, hostVars, mounted, formData, monthYear, expenses, timers,
                   filteredExpenses, chartData, pieChart>>

\* Transactions on the open database run in the order they were created
\* unless both only read.
GlobalCanStart(i) ==
    \A j \in 1..(i - 1) :
        ops[j].pc \in {"gtx", "gdone"} =>
            Mode(ops[j].kind) = "readonly" /\ Mode(ops[i].kind) = "readonly"

\* request.onsuccess of a fetch: setExpenses(the records of selectedMonth).
GlobalFetchSuccess(i) ==
    /\ ops[i].pc = "gtx"
    /\ ops[i].kind = "getAll"
    /\ GlobalCanStart(i)
    /\ LET shown == FilteredExpenses(SortById(store), ops[i].caller.month, utcOffset)
       IN  /\ ops' = [ops EXCEPT ![i].pc = "gdone", ![i].outcome = "resolved",
                                 ![i].pre = store, ![i].post = store,
                                 ![i].kgPre = keyGen, ![i].kgPost = keyGen,
                                 ![i].resList = SortById(store)]
           /\ expenses' = shown
           /\ GlobalRender(shown, monthYear)
    /\ lastEvent' = NoEvent
    /\ UNCHANGED <<dbVars, hostVars, mounted, formData, monthYear, message, timers>>

\* db.addCost resolves with a truthy result: addExpense goes on with
\* fetchExpensesForMonth(monthYear), the month its closure holds, resets the
\* form and shows the success message.
GlobalAddCostSuccess(i) ==
    /\ ops[i].pc = "gtx"
    /\ ops[i].kind = "save"
    /\ GlobalCanStart(i)
    /\ ops' = Append([ops EXCEPT ![i].pc = "gdone", ![i].outcome = "resolved",
                                 ![i].pre = store, ![i].kgPre = keyGen,
                                 ![i].post = PutRecord(store, ops[i].data, keyGen),
                                 ![i].kgPost = PutKeyGen(ops[i].data, keyGen),
                                 ![i].resId = PutKey(ops[i].data, keyGen)],
                     FetchOp(ops[i].caller.month))
    /\ generated' = Append(generated, keyGen)
    /\ formData' = GlobalEmptyForm
    /\ ShowMessage("Expense Added Successfully!", "success")
    /\ lastEvent' = NoEvent
    /\ UNCHANGED <<dbVersion, hasStore, store, keyGen, hostVars, mounted, monthYear,
                   expenses, filteredExpenses, chartData, pieChart>>

\* The request of a fetch or of addCost fails: request.onerror of the fetch,
\* or the catch of addExpense, shows a message of type "error".
GlobalRequestError(i) ==
    /\ ops[i].pc = "gtx"
    /\ GlobalCanStart(i)
    /\ ops' = [ops EXCEPT ![i].pc = "aborted", ![i].outcome = "rejected",
                          ![i].error = "QuotaExceededError",
                          ![i].pre = store, ![i].post = store]
    /\ ShowMessage(IF ops[i].kind = "getAll" THEN "Error fetching expenses"
                   ELSE "QuotaExceededError", "error")
    /\ lastEvent' = NoEvent
    /\ UNCHANGED <<dbVars, hostVars, mounted, formData, monthYear, expenses,
                   filteredExpenses, chartData, pieChart>>

\* The transaction of a fetch or of addCost commits.
GlobalComplete(i) ==
    /\ ops[i].pc = "gdone"
    /\ ops' = [ops EXCEPT ![i].pc = "finished"]
    /\ store' = IF Mode(ops[i].kind) = "readwrite" THEN ops[i].post ELSE store
    /\ keyGen' = IF Mode(ops[i].kind) = "readwrite" THEN ops[i].kgPost ELSE keyGen
    /\ lastEvent' = NoEvent
    /\ UNCHANGED <<dbVersion, hasStore, generated, hostVars, uiVars>>

\* addExpense of this component, up to its `await db.addCost(newExpense)`.
\* The Add button is disabled until isDbInitialized, so the form is only
\* submitted after that. A form that fails a check throws, and the catch
\* shows the message with type "error".
GlobalAddExpense ==
    /\ variant = "idb"
    /\ mounted
    /\ GlobalInitialized
    /\ \E fd \in FormInputs :
          /\ formData' = fd
          /\ IF ValidationError(fd) # ""
             THEN /\ timers < MaxTimers
                  /\ ShowMessage(ValidationError(fd), "error")
                  /\ UNCHANGED ops
             ELSE /\ Len(ops) + 2 <= MaxGlobalOps
                  /\ Cardinality({ j \in 1..Len(ops) :
                                     ops[j].caller.handler = "globalAddExpense" })
                        < MaxGlobalAdds
                  /\ ops' = Append(ops, [NewOp("save", NewExpense(fd), NoId,
                                               [handler |-> "globalAddExpense",
                                                expenses |-> expenses,
                                                month |-> monthYear])
                                         EXCEPT !.pc = "gtx"])
                  /\ UNCHANGED <<message, timers>>
          /\ lastEvent' = [Event("addExpense") EXCEPT !.form = fd]
    /\ UNCHANGED <<dbVars, hostVars, mounted, monthYear, expenses, filteredExpenses,
                   chartData, pieChart>>

\* addExpense called while the Add button is disabled (the form's submit
\* event dispatched by script): its first check throws, and the catch shows
\* the message with type "error".
GlobalSubmitWhileDisabled ==
    /\ variant = "idb"
    /\ mounted
    /\ ~GlobalInitialized
    /\ timers < MaxTimers
    /\ ShowMessage("Database not initialized. Please try again in a moment.", "error")
    /\ lastEvent' = Event("submitWhileDisabled")
    /\ UNCHANGED <<dbVars, ops, hostVars, mounted, formData, monthYear, expenses,
                   filteredExpenses, chartData, pieChart>>

\* The month field's onChange, and the effects on monthYear: a fetch for the
\* new month when the database is initialised and a month is selected, and
\* the chart effect.
GlobalSetMonthYear ==
    /\ variant = "idb"
    /\ mounted
    /\ ~pieChart.unmounted
    /\ \E m \in MonthStrings \cup {""} :
          /\ m # monthYear
          /\ monthYear' = m
          /\ GlobalRender(expenses, m)
          /\ IF GlobalInitialized /\ m # ""
             THEN /\ Len(ops) < MaxGlobalOps
                  /\ ops' = Append(ops, FetchOp(m))
             ELSE UNCHANGED ops
    /\ lastEvent' = NoEvent
    /\ UNCHANGED <<dbVars, hostVars, mounted, formData, expenses, message, timers>>

\* The component before its mount effect: the current month is selected and
\* the form's date is today's; the database is new or holds earlier costs.
InitGlobal ==
    /\ variant = "idb"
    /\ utcOffset \in HostOffsets
    /\ idbAvailable = TRUE
    /\ mounted = FALSE
    /\ formData = GlobalEmptyForm
    /\ monthYear = "2024-03"
    /\ expenses = <<>>
    /\ message = NoMessage
    /\ timers = 0
    /\ filteredExpenses = <<>>
    /\ chartData = <<>>
    /\ pieChart = NoChart
    /\ lastEvent = NoEvent
    /\ ops = <<>>
    /\ dbVersion = 0
    /\ hasStore = FALSE
    /\ generated = <<>>
    /\ \/ store = {} /\ keyGen = 1
       \/ store = PersistedRecords /\ keyGen = 3

\* What the component on the global store is answered when nothing fails
\* and it only reads.
GlobalReads ==
    \/ \E i \in 1..Len(ops) : GlobalLibraryReady(i)
    \/ \E i \in 1..Len(ops) : GlobalOpenResolves(i)
    \/ \E i \in 1..Len(ops) : GlobalFetchSuccess(i)
    \/ \E i \in 1..Len(ops) : GlobalComplete(i)

GlobalEngine ==
    \/ \E i \in 1..Len(ops) : GlobalLibraryReady(i)
    \/ \E i \in 1..Len(ops) : GlobalOpenResolves(i)
    \/ \E i \in 1..Len(ops) : GlobalOpenRejects(i)
    \/ \E i \in 1..Len(ops) : GlobalFetchSuccess(i)
    \/ \E i \in 1..Len(ops) : GlobalAddCostSuccess(i)
    \/ \E i \in 1..Len(ops) : GlobalRequestError(i)
    \/ \E i \in 1..Len(ops) : GlobalComplete(i)

NextGlobal ==
    \/ GlobalMount \/ GlobalAddExpense \/ GlobalSubmitWhileDisabled
    \/ GlobalSetMonthYear \/ TimerFires \/ GlobalEngine

\* A pending timeout fires, and the engine and the library answer what they
\* were asked.
SpecGlobal ==
    InitGlobal /\ [][NextGlobal]_vars /\ WF_vars(TimerFires) /\ WF_vars(GlobalEngine)

----------------------------------------------------------------------------
(* Messages: the three components, with the handlers whose failures show a
   message (a failed delete shows none) *)

InitMsg ==
    \/ InitFault
    \/ InitGlobal /\ utcOffset = 0

NextMsg ==
    \/ Mount \/ AddExpense
    \/ GlobalMount \/ GlobalAddExpense \/ GlobalSubmitWhileDisabled
    \/ TimerFires \/ Engine \/ Faults \/ GlobalEngine

\* A pending timeout fires.
SpecMsg == InitMsg /\ [][NextMsg]_vars /\ WF_vars(TimerFires)


\* initDb failed: openCostsDB was rejected.
InitFailed ==
    \E i \in 1..Len(ops) : ops[i].kind = "openCostsDB" /\ ops[i].outcome = "rejected"

\* C19 as stated: every message is transient, it is cleared again whichever
\* failure showed it, and no failure leaves the form unsubmittable. The
\* component on the global store breaks both parts when openCostsDB is
\* rejected: its message is set without a timer, and the Add button stays
\* disabled.
C19_EveryMessageTransient ==
    /\ (message.text # "") ~> (message.text = "")
    /\ [](variant = "idb" /\ (\A i \in 1..Len(ops) : ops[i].pc \notin {"wait", "libopen"})
            /\ mounted => GlobalInitialized)

\* C19, amended: every message shown through showMessage is cleared when its
\* timer fires, and the only message that stays is the one initDb sets when
\* the database of the component on the global store cannot be opened; once
\* that database is initialised, no later failure disables the form again.
C19_ShownMessagesTransient ==
    /\ (timers > 0) ~> (message.text = "")
    /\ [](message.text # "" /\ timers = 0 => InitFailed)
    /\ [][GlobalInitialized => GlobalInitialized']_vars

\* A save or a fetch was rejected, its message was shown and has been
\* dismissed.
C19_Witness ==
    /\ \E i \in 1..Len(ops) :
          /\ ops[i].outcome = "rejected"
          /\ ops[i].caller.handler \in {"addExpense", "globalAddExpense",
                                        "fetchExpensesForMonth"}
    /\ message = NoMessage
    /\ timers = 0

----------------------------------------------------------------------------
(* Records whose date cannot be parsed, checked under SpecView *)

\* The date of the record is one the Date constructor can read.
Parsable(e) == e.date \in DateStrings

\* The record list without the records whose date cannot be parsed.
ParsableOnly(list) == SelectSeq(list, Parsable)

\* C21: a record whose date cannot be parsed is in the filtered list and in
\* the category totals for no month selection, and its presence in the
\* record list does not change which other records are selected: the
\* filtered list and the chart are those of the list without such records.
C21_UnparsableDateSkipped ==
    /\ \A i \in 1..Len(filteredExpenses) : Parsable(filteredExpenses[i])
    /\ filteredExpenses = FilteredExpenses(ParsableOnly(expenses), monthYear, utcOffset)
    /\ monthYear # "" =>
          chartData = CategoryTotals(
                          FilteredExpenses(ParsableOnly(expenses), monthYear, utcOffset))

\* A month is selected over a list that holds a record with an unparsable
\* date between records of that month, and those are selected.
C21_Witness ==
    /\ monthYear # ""
    /\ Len(expenses) = 3
    /\ ~Parsable(expenses[2])
    /\ Parsable(expenses[1]) /\ Parsable(expenses[3])
    /\ Len(filteredExpenses) = 2
    /\ chartData # <<>>

----------------------------------------------------------------------------
(* Overlapping operations of the component, checked under SpecApp *)

\* Every call the component made has resolved and committed.
AllCompleted ==
    /\ Len(ops) > 0
    /\ \A j \in 1..Len(ops) : ops[j].pc = "finished" /\ Resolved(j)

\* C22: when operations of the component overlap, then after all of them
\* have completed the in-memory list holds every record the store holds and
\* no record the store does not hold. Each handler continues with the
\* `expenses` of the render it was called in, so the later of two
\* overlapping continuations overwrites what the earlier one set.
C22_OverlapKeepsCache ==
    AllCompleted =>
        /\ Range(expenses) = store
        /\ Len(expenses) = Cardinality(store)

----------------------------------------------------------------------------
(* Fetches of the component on the global store that overlap *)

\* The component over a database that holds costs of two months, with the
\* handlers that place requests, all of which succeed.
InitRace ==
    /\ InitGlobal
    /\ utcOffset = 0
    /\ store = PersistedRecords

NextRace ==
    \/ GlobalMount \/ GlobalAddExpense \/ GlobalSetMonthYear
    \/ GlobalReads
    \/ \E i \in 1..Len(ops) : GlobalAddCostSuccess(i)

SpecRace == InitRace /\ [][NextRace]_vars

\* The database is initialised and every request placed on it has succeeded
\* and its transaction has committed.
AllRequestsCompleted ==
    /\ GlobalInitialized
    /\ \A j \in 1..Len(ops) : ops[j].pc = "finished" /\ ops[j].outcome = "resolved"

\* C23: when the selected month changes, or an add triggers a refresh, while
\* an earlier fetchExpensesForMonth request is pending, then after all
\* requests have completed the displayed list holds exactly the stored
\* records of the month that is selected now (the records the component's
\* own filter selects for that month). Each request.onsuccess calls
\* setExpenses with the records of the month it was asked for, whichever
\* month is selected by then.
C23_DisplayedIsSelectedMonth ==
    (AllRequestsCompleted /\ monthYear # "") =>
        expenses = FilteredExpenses(SortById(store), monthYear, utcOffset)

----------------------------------------------------------------------------
(* Writes of the component on the global store, checked under SpecMsg *)

\* Call j is db.addCost.
IsAddCost(j) == ops[j].caller.handler = "globalAddExpense"

\* C24: addExpense never calls db.addCost while the database is not
\* initialised (openCostsDB had resolved before every addCost was called);
\* called before that, it shows an error and leaves the calls made, the
\* list and the store as they were; and after initialisation has failed no
\* write to the store is ever attempted.
C24_NoWriteBeforeInit ==
    /\ [](\A j \in 1..Len(ops) :
            IsAddCost(j) =>
                \E i \in ops[j].seen :
                    ops[i].kind = "openCostsDB" /\ ops[i].outcome = "resolved")
    /\ [](InitFailed => \A j \in 1..Len(ops) : Mode(ops[j].kind) = "readonly"
                                               \/ ops[j].kind = "openCostsDB")
    /\ [][lastEvent'.handler = "submitWhileDisabled" =>
            /\ message'.type = "error"
            /\ ops' = ops
            /\ store' = store
            /\ expenses' = expenses]_vars

\* openCostsDB was rejected, and addExpense, called after that, showed its
\* error and called nothing.
C24_Witness ==
    /\ InitFailed
    /\ lastEvent.handler = "submitWhileDisabled"
    /\ message.text = "Database not initialized. Please try again in a moment."
    /\ message.type = "error"
    /\ lastEvent.opsBefore = Len(ops)

----------------------------------------------------------------------------
(* Records written through the form, checked under SpecApp *)

\* Call j is the save addExpense makes.
IsFormSave(j) == ops[j].kind = "save" /\ ops[j].caller.handler = "addExpense"

\* C25: every record the application writes to the store through the form
\* has a numeric amount greater than 0, a description that is not empty
\* after trimming, a date that is not empty, a category from the fixed set
\* of five, and no id supplied by the caller.
C25_WrittenRecordsValid ==
    \A j \in 1..Len(ops) :
        IsFormSave(j) =>
            /\ ops[j].data.amount # NaN
            /\ ops[j].data.amount > 0
            /\ Trim(ops[j].data.description) # ""
            /\ ops[j].data.date # ""
            /\ ops[j].data.category \in Categories
            /\ ops[j].data.id = NoId

\* A record written through the form has been committed.
C25_Witness ==
    \E j \in 1..Len(ops) :
        /\ IsFormSave(j)
        /\ ops[j].pc = "finished"
        /\ Resolved(j)
        /\ \E r \in store : r.id = ops[j].resId /\ r.category = "other"

----------------------------------------------------------------------------
(* The order of the in-memory list, checked under SpecApp *)

\* C26: after the initial load and after every successful add or delete the
\* in-memory list is ordered by date, newest first: of two consecutive
\* elements the first is not dated earlier than the second.
C26_NewestFirst ==
    \A k \in 1..(Len(expenses) - 1) :
        NewDate(expenses[k].date) >= NewDate(expenses[k + 1].date)

\* The two earlier records were loaded and an add has put its record between
\* them.
C26_Witness ==
    /\ AllCompleted
    /\ Len(expenses) = 3
    /\ expenses[2].id = 3
    /\ NewDate(expenses[1].date) > NewDate(expenses[3].date)
    /\ \E j \in 1..Len(ops) : IsFormSave(j)

----------------------------------------------------------------------------
(* The chart instances *)

\* The component is unmounted: the cleanup of the effect on [pieChart] runs
\* with the pieChart of the last render and destroys that instance if it is
\* not null.
Unmount ==
    /\ mounted
    /\ ~pieChart.unmounted
    /\ pieChart' = [(IF pieChart.ref # "none"
                     THEN [ChartDestroy(pieChart, pieChart.ref) EXCEPT !.ref = "destroyed"]
                     ELSE pieChart)
                    EXCEPT !.unmounted = TRUE]
    /\ lastEvent' = NoEvent
    /\ UNCHANGED <<dbVars, ops, hostVars, mounted, formData, monthYear, expenses,
                   message, timers, filteredExpenses, chartData>>

\* The components with a record list to draw: app.jsx and App.jsx holding
\* some list, and the component on the global store over a database with
\* costs of two months.
InitChart ==
    \/ InitView /\ utcOffset = 0
    \/ /\ InitFreshDb
       /\ variant = "App"
       /\ utcOffset = 0
       /\ idbAvailable = TRUE
       /\ mounted = TRUE
       /\ formData = EmptyForm
       /\ message = NoMessage
       /\ timers = 0
       /\ lastEvent = NoEvent
       /\ expenses \in [1..2 -> ViewRecords]
       /\ monthYear = ""
       /\ filteredExpenses = <<>>
       /\ chartData = <<>>
       /\ pieChart = NoChart
    \/ InitRace

NextChart ==
    \/ SetMonthYear
    \/ GlobalMount \/ GlobalSetMonthYear \/ GlobalReads
    \/ Unmount

SpecChart == InitChart /\ [][NextChart]_vars

\* C27: at any time at most one chart instance is live on the canvas: a new
\* Chart is created only when no live chart exists, a chart is never updated
\* and never destroyed again after it was destroyed, and on unmount the live
\* chart, if any, is destroyed. In the component on the global store the
\* chart effect destroys the chart it replaces, and the cleanup of the
\* effect on [pieChart] then destroys the same instance once more.
C27_OneLiveChart ==
    /\ pieChart.live <= 1
    /\ pieChart.misuse = ""
    /\ pieChart.unmounted => pieChart.live = 0

\* C27 for app.jsx and App.jsx, where the one chart is created once, updated
\* after that and destroyed on unmount.
C27_OneLiveChartInApp ==
    variant \in Variants => C27_OneLiveChart

----------------------------------------------------------------------------
(* The prompt of deleteExpense, checked under SpecApp *)

\* C28: deleteExpense calls the store's delete only after the user has
\* confirmed the prompt (a delete call is only ever added by a confirmed
\* deleteExpense); when the user declines, the calls made, the store, the
\* in-memory list and the message are all unchanged.
C28_DeleteOnlyConfirmed ==
    [][/\ (Len(ops') > Len(ops) /\ ops'[Len(ops')].kind = "delete")
            => lastEvent'.handler = "deleteExpense"
       /\ lastEvent'.handler = "deleteExpenseDeclined"
            => /\ ops' = ops
               /\ store' = store
               /\ expenses' = expenses
               /\ message' = message]_vars

\* The user has declined the prompt for a record that is shown and stored.
C28_Witness ==
    /\ lastEvent.handler = "deleteExpenseDeclined"
    /\ filteredExpenses # <<>>
    /\ store # {}
    /\ \A j \in 1..Len(ops) : ops[j].kind # "delete"

----------------------------------------------------------------------------
(* The timers of showMessage, checked under SpecApp *)

\* The timeouts of showMessage all wait 3000 ms, so they fire in the order
\* they were started: with more than one pending, the one that fires belongs
\* to a message shown before the one on screen.

\* C29: a message stays until its own timer fires unless a newer message
\* replaces it: the timer started for an earlier message never clears a
\* message that was shown later. showMessage never cancels the timer of the
\* message it replaces, and every timer clears whatever is shown.
C29_OwnTimerClears ==
    [][(timers' = timers - 1 /\ timers > 1) => message' = message]_vars

----------------------------------------------------------------------------
(* Initialisation of the component on the global store *)

\* What the library and the database answer once they were asked.
GlobalAnswers ==
    \/ \E i \in 1..Len(ops) : GlobalOpenResolves(i)
    \/ \E i \in 1..Len(ops) : GlobalOpenRejects(i)
    \/ \E i \in 1..Len(ops) : GlobalFetchSuccess(i)
    \/ \E i \in 1..Len(ops) : GlobalRequestError(i)
    \/ \E i \in 1..Len(ops) : GlobalComplete(i)

NextInit ==
    \/ GlobalMount \/ GlobalSubmitWhileDisabled
    \/ \E i \in 1..Len(ops) : GlobalLibraryReady(i)
    \/ GlobalAnswers \/ TimerFires

\* The mount effect runs, openCostsDB and the requests are answered, and a
\* pending timeout fires. Whether the script that defines window.idb is ever
\* loaded is up to the page: nothing makes checkIDB find it.
SpecInit ==
    /\ InitGlobal
    /\ [][NextInit]_vars
    /\ WF_vars(GlobalMount) /\ WF_vars(GlobalAnswers) /\ WF_vars(TimerFires)

\* C30: initialisation started on mount eventually finishes, isDbInitialized
\* becomes true or the initialisation error is shown, also when the global
\* store object never appears. waitForIDB polls every 100 ms without a
\* limit and never rejects, so initDb stays at its first await.
C30_InitFinishes ==
    (variant = "idb" /\ mounted) ~> (GlobalInitialized \/ InitFailed)

\* C30 once checkIDB has found window.idb: openCostsDB resolves or rejects,
\* and initDb finishes.
C30_FinishesOnceLibraryLoaded ==
    (\E i \in 1..Len(ops) : ops[i].pc = "libopen") ~> (GlobalInitialized \/ InitFailed)

============================================================================
